---- MODULE Spec2Model ----
(***************************************************************************)
(* Live-translation prototype: the host-side chunk accumulator             *)
(* (frontend/public/pcm-processor.js) and the server-side pipeline         *)
(* controller (frontend/src/socket.ts).                                    *)
(***************************************************************************)
EXTENDS Integers, Sequences, FiniteSets, TLC

(***************************************************************************)
(* Text.  A JavaScript string is a TLA+ string; Char(s, i) is its i-th     *)
(* code unit.  Two printable characters stand for code units that a        *)
(* module file cannot spell portably: "~" is a non-ASCII letter (such as   *)
(* an accented vowel) and "^" is a pictographic (emoji) character.         *)
(***************************************************************************)
Char(s, i) == SubSeq(s, i, i)

Chars(s) == {Char(s, i) : i \in 1..Len(s)}

UpperAlpha == "ABCDEFGHIJKLMNOPQRSTUVWXYZ"

LowerAlpha == "abcdefghijklmnopqrstuvwxyz"

Digits == "0123456789"

WhiteSpace == {" ", "\t", "\n", "\r", "\f"}

LineTerminators == {"\n", "\r"}

Punct == {".", "!", "?"}

NonAsciiChars == {"~", "^"}

EmojiChars == {"^"}

IsSpace(c) == c \in WhiteSpace

Letters == Chars(UpperAlpha) \cup Chars(LowerAlpha)

WordChars == Letters \cup Chars(Digits) \cup {"_"}

IsLetter(c) == c \in Letters

IsWordChar(c) == c \in WordChars

IsAscii(c) == c \notin NonAsciiChars

RECURSIVE TrimStart(_)
TrimStart(s) ==
    IF s # "" /\ IsSpace(Char(s, 1)) THEN TrimStart(SubSeq(s, 2, Len(s))) ELSE s

RECURSIVE TrimEnd(_)
TrimEnd(s) ==
    IF s # "" /\ IsSpace(Char(s, Len(s))) THEN TrimEnd(SubSeq(s, 1, Len(s) - 1)) ELSE s

\* String.prototype.trim
Trim(s) == TrimEnd(TrimStart(s))

LowerOf == [c \in Chars(UpperAlpha) |->
               Char(LowerAlpha, CHOOSE i \in 1..Len(UpperAlpha) : Char(UpperAlpha, i) = c)]

LowerChar(c) == IF c \in DOMAIN LowerOf THEN LowerOf[c] ELSE c

\* the case folding of the /i flag
RECURSIVE ToLower(_)
ToLower(s) ==
    IF s = "" THEN "" ELSE LowerChar(Char(s, 1)) \o ToLower(SubSeq(s, 2, Len(s)))

MatchAt(s, i, p) == i >= 1 /\ i + Len(p) - 1 <= Len(s) /\ SubSeq(s, i, i + Len(p) - 1) = p

StartsWith(s, p) == MatchAt(s, 1, p)

Contains(s, p) == \E i \in 1..Len(s) : MatchAt(s, i, p)

\* s without a trailing [.!?]*
RECURSIVE StripPunctEnd(_)
StripPunctEnd(s) ==
    IF s # "" /\ Char(s, Len(s)) \in Punct THEN StripPunctEnd(SubSeq(s, 1, Len(s) - 1)) ELSE s

\* s without a leading [.!?]*
RECURSIVE StripPunctStart(_)
StripPunctStart(s) ==
    IF s # "" /\ Char(s, 1) \in Punct THEN StripPunctStart(SubSeq(s, 2, Len(s))) ELSE s

\* ^phrase[.!?]*$ for a phrase that does not end in punctuation
Line(s, phrase) == StripPunctEnd(s) = phrase

\* \b before position i, a word character
BoundaryBefore(s, i) == i = 1 \/ ~IsWordChar(Char(s, i - 1))

\* \b after position j, a word character
BoundaryAfter(s, j) == j = Len(s) \/ ~IsWordChar(Char(s, j + 1))

\* \b(w)\b for a phrase w that starts and ends with a word character
ContainsWord(s, w) ==
    \E i \in 1..Len(s) :
        MatchAt(s, i, w) /\ BoundaryBefore(s, i) /\ BoundaryAfter(s, i + Len(w) - 1)

\* ^open.*close$ ("." matches no line terminator)
Bracketed(s, open, close) ==
    /\ Len(s) >= 2
    /\ Char(s, 1) = open
    /\ Char(s, Len(s)) = close
    /\ \A i \in 2..(Len(s) - 1) : Char(s, i) \notin LineTerminators

\* (?:\s+w){n,} matched from position k on
RECURSIVE RepeatsFrom(_, _, _, _)
RepeatsFrom(s, k, w, n) ==
    \/ n = 0
    \/ \E m \in (k + 1)..Len(s) :
          /\ \A q \in k..(m - 1) : IsSpace(Char(s, q))
          /\ MatchAt(s, m, w)
          /\ RepeatsFrom(s, m + Len(w), w, n - 1)

\* /\b(\w+)\b(?:\s+\1){2,}/ on the folded text
RepeatedWord(s) ==
    \E i \in 1..Len(s) : \E j \in i..Len(s) :
        /\ \A q \in i..j : IsWordChar(Char(s, q))
        /\ BoundaryBefore(s, i)
        /\ BoundaryAfter(s, j)
        /\ RepeatsFrom(s, j + 1, SubSeq(s, i, j), 2)

\* /(and then).*\1/ (case-sensitive)
AndThenTwice(s) ==
    \E i \in 1..Len(s) : \E j \in (i + 8)..Len(s) :
        /\ MatchAt(s, i, "and then")
        /\ MatchAt(s, j, "and then")
        /\ \A q \in (i + 8)..(j - 1) : Char(s, q) \notin LineTerminators

\* /^(you|okay|yes|no|um+|hmm+|hi)[.!?]*$/i on the folded text
StrayWord(s) ==
    LET w == StripPunctEnd(s) IN
    \/ w \in {"you", "okay", "yes", "no", "hi"}
    \/ Len(w) >= 2 /\ Char(w, 1) = "u" /\ \A q \in 2..Len(w) : Char(w, q) = "m"
    \/ Len(w) >= 3 /\ Char(w, 1) = "h" /\ \A q \in 2..Len(w) : Char(w, q) = "m"

\* /^thank you for joining us[.!?]* we'll see you next time[.!?]*$/i
JoiningUsSignOff(s) ==
    LET head == "thank you for joining us" IN
    /\ StartsWith(s, head)
    /\ StripPunctEnd(StripPunctStart(SubSeq(s, Len(head) + 1, Len(s))))
           = " we'll see you next time"

\* /^transcribed by https?:\/\/\S+/i
TranscribedBy(s) ==
    \E head \in {"transcribed by http://", "transcribed by https://"} :
        /\ StartsWith(s, head)
        /\ Len(s) > Len(head)
        /\ ~IsSpace(Char(s, Len(head) + 1))

\* /\b(www\.[^\s]+)/i
WebAddress(s) ==
    \E i \in 1..Len(s) :
        /\ MatchAt(s, i, "www.")
        /\ BoundaryBefore(s, i)
        /\ i + 4 <= Len(s)
        /\ ~IsSpace(Char(s, i + 4))

\* /[^\x00-\x7F]{3,}/
NonAsciiRun(s) ==
    \E i \in 1..(Len(s) - 2) : \A q \in i..(i + 2) : ~IsAscii(Char(s, q))

(***************************************************************************)
(* INADMISSIBLE_PATTERNS: the result of p.test(text) for each pattern, in  *)
(* the order of the array.                                                 *)
(***************************************************************************)
INADMISSIBLE_PATTERNS(text) ==
    LET l == ToLower(text) IN
    << \A i \in 1..Len(text) : IsSpace(Char(text, i)),
       StrayWord(l),
       Line(l, "thank you"),
       Line(l, "thank you for joining us"),
       Line(l, "thank you for watching"),
       Line(l, "thank you for having me"),
       JoiningUsSignOff(l),
       Line(l, "thank you for listening"),
       Line(l, "bye"),
       \E sep \in {"", "-"} \cup WhiteSpace : Line(l, "bye" \o sep \o "bye"),
       Line(l, "goodbye"),
       \E tail \in {"", " later", " next time"} : Line(l, "see you" \o tail),
       Line(l, "let me know in the comments what you think"),
       TranscribedBy(l),
       Line(l, "thanks for watching"),
       \E bang \in {"", "!"} : Line(l, "excited" \o bang \o " thanks for watching"),
       Contains(l, "subscribe"),
       Contains(l, "this podcast"),
       Contains(l, "visit our website"),
       \E w \in {"music", "applause", "laughter", "noise", "static", "crowd"} :
           ContainsWord(l, w),
       WebAddress(l),
       Bracketed(text, "[", "]"),
       Bracketed(text, "(", ")"),
       Bracketed(text, "<", ">"),
       NonAsciiRun(text),
       RepeatedWord(l),
       Len(Trim(text)) = 1 /\ IsLetter(Trim(text)),
       \E w \in {"and so on", "etc"} : ContainsWord(l, w),
       AndThenTwice(text),
       \E i \in 1..Len(text) : Char(text, i) \in EmojiChars >>

\* INADMISSIBLE_PATTERNS.some((p) => p.test(text))
SomePatternMatches(text) ==
    LET tests == INADMISSIBLE_PATTERNS(text) IN \E k \in DOMAIN tests : tests[k]

\* the filter of transcribeAudio: invalid || text.length < 3
\* a filter that rejects only what fails both rules
Inadmissible_Both(text) == SomePatternMatches(text) /\ Len(text) < 3

Inadmissible(text) == SomePatternMatches(text) \/ Len(text) < 3

(***************************************************************************)
(* Bounds of the model.                                                    *)
(***************************************************************************)
\* audio-chunk events the server receives
MaxChunks == 2

\* the server's clock runs over 0..MaxTime milliseconds
MaxTime == 1

\* frames the worklet posts to the host page
MaxFrames == 4

\* samples in one posted frame: 1..MaxFrameLen
MaxFrameLen == 2

\* Math.floor(audioCtx.sampleRate * (CHUNK_MS / 1000)), scaled down
framesPerChunk == 3

\* a Float32 sample is n / SampleDen for an integer n; 2 * 0x7fff + 1 is the
\* coarsest resolution that has a sample between 1/0x8000 and 1/0x7fff
SampleDen == 2 * 32767 + 1

Chunks == 1..MaxChunks

Times == 0..MaxTime

\* sample numerators: -3 is below -1.0 and is clamped
Samples == {-3, 1}

Frames == UNION {[1..n -> Samples] : n \in 1..MaxFrameLen}

\* const CHUNK_MS = 5000
CHUNK_MS == 5000

\* samples for the round trip: those of at most MaxSample steps around 0, and
\* one beyond each end of [-1, 1].  (The samples -1 and 1 themselves are
\* left out: the store into the Float32Array rounds -0x8000 / 0x7fff to 24
\* bits, to -(1 + 2^-15), which a fraction over 0x7fff does not express; for
\* the samples used here the rounding changes no comparison made.)
MaxSample == 64

RoundTripSamples == (-MaxSample..MaxSample) \cup {-SampleDen - 1, SampleDen + 1}

\* filtered.slice(-5)
HistoryLength == 5

\* the {buffer, timestamp} payloads the c-th audio-chunk event may carry: the
\* server never looks into either, so one payload per chunk, different from
\* every other chunk's, stands for them all
Payloads(c) == {[buffer |-> "pcm" \o ToString(c), timestamp |-> CHUNK_MS * c]}

\* what the transcription engine may answer (response_format: "text")
WhisperTexts == {" um\n", "Hello world.\n"}

\* more answers of the transcription engine, to exercise the filter: the
\* texts the contract names, and every phrase of at most MaxWords of these
\* words
MaxWords == 2

FilterWords == {"um", "hi", "ab", "cat", "sunny"}

FilterExamples == {"um", "", "hi hi hi", "Thank you for watching!", "cat",
                   "The weather today is sunny"}

RECURSIVE Phrase(_)
Phrase(words) ==
    IF Len(words) = 1 THEN words[1] ELSE words[1] \o " " \o Phrase(Tail(words))

FilterTexts ==
    FilterExamples \cup
        {Phrase(words) : words \in UNION {[1..n -> FilterWords] : n \in 1..MaxWords}}

\* the caption records an attendee may receive: the empty caption of a
\* filtered or failed chunk, or a trimmed transcript with a translation
\* that is empty (failure) or a trimmed answer of the translation engine
CaptionTranscripts == {"Hello world.", "cat"}

CaptionTranslations == {"", "\"xin chao\"", "'chao'", "''"}

CaptionRecords ==
    {[transcript |-> "", translation |-> "", timestamp |-> CHUNK_MS]} \cup
    {[transcript |-> t, translation |-> x, timestamp |-> CHUNK_MS] :
        t \in CaptionTranscripts, x \in CaptionTranslations}

\* message contents the translation engine may answer
Translations == {" \"xin chao\" "}

\* request bodies' csv fields the glossary endpoint may receive
GlossaryUploads == {"", "en,vn\nhello,xin chao\n,missing", "en,vn\nworld,the gioi"}

\* the glossary texts a user may upload: a header, then at most MaxRows of
\* these rows (complete, duplicate term, padded, blank term, blank
\* translation, missing column, empty column, blank)
MaxRows == 2

GlossaryHeader == "en,vn"

GlossaryRows == {"hello,xin chao", "hello,chao", " world , the gioi ", " ,x", "y, ",
                 "solo", ",missing", ""}

RECURSIVE WithRows(_, _)
WithRows(csv, rows) ==
    IF rows = <<>> THEN csv ELSE WithRows(csv \o "\n" \o Head(rows), Tail(rows))

GlossaryTexts ==
    {WithRows(GlossaryHeader, rows) :
        rows \in UNION {[1..n -> GlossaryRows] : n \in 0..MaxRows}}

Sockets == {"s1", "s2"}

\* values of Math.random().toString(36).substring(2, 8); it is "" when
\* Math.random() gives 0, whose text "0" has no third character
RoomIds == {"r1", "r2", ""}

Null == "null"

Fail == "Fails"

NoContent == "NoContent"

NoResponse == "NoResponse"

NoRoster == [room |-> Null, members |-> {}]

\* an absent file; a file is [writer, format, of]: the chunk whose run wrote
\* it, its format, and the PCM payload its samples come from
NoFile == [writer |-> 0, format |-> "none", of |-> "none"]

NoData == [buffer |-> "none", timestamp |-> 0]

\* no translated-caption record has been received yet
NoCaption == [transcript |-> Null, translation |-> Null, timestamp |-> 0]

\* no /upload-glossary request has been answered yet
NoReply == [csv |-> Null, status |-> 0]

\* a transcription request that has not read its file yet, and one whose
\* file could not be read
NotRead == [writer |-> 0, format |-> "notread", of |-> "none"]

Unreadable == [writer |-> 0, format |-> "unreadable", of |-> "none"]

\* os.tmpdir()/input-<t>.raw and os.tmpdir()/output-<t>.wav
TempInput(t) == <<"input", t, "raw">>

TempOutput(t) == <<"output", t, "wav">>

FileNames == {TempInput(t) : t \in Times} \cup {TempOutput(t) : t \in Times}

\* the file writeFileSync(tempInput, Buffer.from(rawBuffer)) leaves
Raw(c, pcm) == [writer |-> c, format |-> "s16le", of |-> pcm]

\* the file ffmpeg writes from the raw input it read: 16 kHz mono WAV
Wav(c, input) == [writer |-> c, format |-> "wav16k", of |-> input.of]

VARIABLES
    \* the server (socket.ts)
    now,          \* Date.now() on the server
    pc,           \* per chunk: the await its handler is suspended at
    data,         \* per chunk: the {buffer, timestamp} of its audio-chunk event
    stamp,        \* per chunk: the Date.now() its temp file names were built from
    files,        \* the temp directory: name -> NoFile or a file
    ffmpeg,       \* per chunk: the child process ("none", "running", "ok", "failed")
    upload,       \* per chunk: the file the transcription request read
    response,     \* per chunk: what the transcription engine answered
    completion,   \* per chunk: what the translation engine answered
    calls,        \* the chat completion requests made
    outbox,       \* the notifications emitted, in order
    crashed,      \* an exception escaped a listener: the process is gone
    hung,         \* chunks whose pending external call never returns
    glossaryCSV,  \* the stored glossary text, or Null
    reply,        \* the last /upload-glossary request: its csv and the status answered
    activeRoomId, \* the single room, or Null
    connected,    \* the sockets connected to the server
    rooms,        \* per socket: the rooms it has joined
    roster,       \* history: per chunk, the active room and its members when its
                  \* audio-chunk event arrived
    \* the host page (pcm-processor.js)
    pcmBufferQueue, \* the frames buffered since the last chunk
    queuedFrames,   \* the samples buffered since the last chunk
    sent,           \* the audio-chunk events the host emitted, in order
    submitted,      \* the frames posted by the worklet so far, in order
    \* an attendee page (pcm-processor.js)
    played,         \* the sample buffers decoded and started, in order
    delivered,      \* the last translated-caption record received
    captions,       \* the caption history
    transcripts     \* the transcript history

pipelineVars == <<now, pc, data, stamp, files, ffmpeg, upload, response, completion,
                  calls, outbox, crashed, hung>>

sessionVars == <<glossaryCSV, reply, activeRoomId, connected, rooms, roster>>

hostVars == <<pcmBufferQueue, queuedFrames, sent, submitted>>

attendeeVars == <<played, delivered, captions, transcripts>>

vars == <<pipelineVars, sessionVars, hostVars, attendeeVars>>

Init ==
    /\ now = 0
    /\ pc = [c \in Chunks |-> "idle"]
    /\ data = [c \in Chunks |-> NoData]
    /\ stamp = [c \in Chunks |-> 0]
    /\ files = [f \in FileNames |-> NoFile]
    /\ ffmpeg = [c \in Chunks |-> "none"]
    /\ upload = [c \in Chunks |-> NotRead]
    /\ response = [c \in Chunks |-> NoResponse]
    /\ completion = [c \in Chunks |-> NoResponse]
    /\ calls = {}
    /\ outbox = <<>>
    /\ crashed = FALSE
    /\ hung = {}
    /\ glossaryCSV = Null
    /\ reply = NoReply
    /\ activeRoomId = Null
    /\ connected = {}
    /\ rooms = [s \in Sockets |-> {}]
    /\ roster = [c \in Chunks |-> NoRoster]
    /\ pcmBufferQueue = <<>>
    /\ queuedFrames = 0
    /\ sent = <<>>
    /\ submitted = <<>>
    /\ played = <<>>
    /\ delivered = NoCaption
    /\ captions = <<>>
    /\ transcripts = <<>>

(***************************************************************************)
(* The chunk accumulator of the host page.                                 *)
(***************************************************************************)
\* a merge that puts every frame before the ones buffered earlier
RECURSIVE mergeFloat32Arrays_Reversed(_)
mergeFloat32Arrays_Reversed(arrays) ==
    IF arrays = <<>> THEN <<>>
    ELSE mergeFloat32Arrays_Reversed(Tail(arrays)) \o Head(arrays)

\* mergeFloat32Arrays: the frames one after the other
RECURSIVE mergeFloat32Arrays(_)
mergeFloat32Arrays(arrays) ==
    IF arrays = <<>> THEN <<>> ELSE Head(arrays) \o mergeFloat32Arrays(Tail(arrays))

\* the conversion of DataView.setInt16: truncate, then wrap to 16 bits
ToInt16(num, den) ==
    LET t == IF num >= 0 THEN num \div den ELSE -((-num) \div den)
    IN ((t + 32768) % 65536) - 32768

\* one sample of float32To16BitPCM: clamp to [-1, 1], scale, store
SampleToPCM(n) ==
    LET s == IF n < -SampleDen THEN -SampleDen ELSE IF n > SampleDen THEN SampleDen ELSE n
    IN ToInt16(IF s < 0 THEN s * 32768 ELSE s * 32767, SampleDen)

\* a loop that stops one sample early
float32To16BitPCM_DropsLast(float32Array) ==
    [i \in 1..(Len(float32Array) - 1) |-> SampleToPCM(float32Array[i])]

float32To16BitPCM(float32Array) ==
    [i \in 1..Len(float32Array) |-> SampleToPCM(float32Array[i])]

\* the comparison written as >
ChunkReady_Strict(queued) == queued > framesPerChunk

\* if (queuedFrames >= framesPerChunk)
ChunkReady(queued) == queued >= framesPerChunk

\* workletNode.port.onmessage: buffer the frame; at the threshold merge,
\* convert, emit audio-chunk and reset the queue.  Date.now() is counted in
\* frame periods.
OnMessage(float32Array) ==
    /\ Len(submitted) < MaxFrames
    /\ submitted' = Append(submitted, float32Array)
    /\ LET queue == Append(pcmBufferQueue, float32Array)
           queued == queuedFrames + Len(float32Array)
       IN IF ChunkReady(queued)
          THEN /\ sent' = Append(sent,
                     [buffer |-> float32To16BitPCM(mergeFloat32Arrays(queue)),
                      timestamp |-> Len(submitted) + 1])
               /\ pcmBufferQueue' = <<>>
               /\ queuedFrames' = 0
          ELSE /\ pcmBufferQueue' = queue
               /\ queuedFrames' = queued
               /\ UNCHANGED sent
    /\ UNCHANGED <<pipelineVars, sessionVars, attendeeVars>>

HostNext == \E frame \in Frames : OnMessage(frame)

\* the host page alone
HostSpec == Init /\ [][HostNext]_vars

(***************************************************************************)
(* An attendee page.                                                       *)
(***************************************************************************)
\* int16[i] / 0x7fff for every sample of the buffer, as a fraction
DecodePCM(buffer) == [i \in DOMAIN buffer |-> [num |-> buffer[i], den |-> 32767]]

\* socket.on("audio-stream"): decode the next chunk and start it.  The
\* server passes the buffer of an audio-chunk event on as it came.
AudioStream ==
    /\ Len(played) < Len(sent)
    /\ played' = Append(played, DecodePCM(sent[Len(played) + 1].buffer))
    /\ UNCHANGED <<pipelineVars, sessionVars, hostVars, delivered, captions, transcripts>>

\* .replace(/^"(.*)"$/, "$1"): the dot matches no line terminator
StripWrappingQuotes(s) ==
    IF /\ Len(s) >= 2
       /\ Char(s, 1) = "\"" /\ Char(s, Len(s)) = "\""
       /\ \A i \in 2..(Len(s) - 1) : Char(s, i) \notin LineTerminators
    THEN SubSeq(s, 2, Len(s) - 1)
    ELSE s

\* .replace(/^'+|'+$/g, "")
RECURSIVE StripSingleStart(_)
StripSingleStart(s) ==
    IF Len(s) > 0 /\ Char(s, 1) = "'" THEN StripSingleStart(SubSeq(s, 2, Len(s))) ELSE s

RECURSIVE StripSingleEnd(_)
StripSingleEnd(s) ==
    IF Len(s) > 0 /\ Char(s, Len(s)) = "'"
    THEN StripSingleEnd(SubSeq(s, 1, Len(s) - 1))
    ELSE s

CleanTranslation(translation) ==
    StripSingleEnd(StripSingleStart(StripWrappingQuotes(Trim(translation))))

\* [...prev, cleaned].filter(t => t !== "").slice(-5)
Keep(prev, cleaned) ==
    LET filtered == SelectSeq(Append(prev, cleaned), LAMBDA t : t # "")
    IN IF Len(filtered) > HistoryLength
       THEN SubSeq(filtered, Len(filtered) - HistoryLength + 1, Len(filtered))
       ELSE filtered

\* the updater passed to setCaptions
NextCaptions(prev, record) == Keep(prev, CleanTranslation(record.translation))

\* an updater that records a transcript only along with a caption
NextTranscripts_WithCaption(prev, record) ==
    IF CleanTranslation(record.translation) = "" THEN prev ELSE Keep(prev, Trim(record.transcript))

\* the updater passed to setTranscripts
NextTranscripts(prev, record) == Keep(prev, Trim(record.transcript))

\* socket.on("translated-caption")
TranslatedCaption(record) ==
    /\ delivered' = record
    /\ captions' = NextCaptions(captions, record)
    /\ transcripts' = NextTranscripts(transcripts, record)
    /\ UNCHANGED <<pipelineVars, sessionVars, hostVars, played>>

AttendeeNext == \E record \in CaptionRecords : TranslatedCaption(record)

\* an attendee page receiving captions
AttendeeSpec == Init /\ [][AttendeeNext]_vars

\* the host page converting its first chunk, of framesPerChunk equal
\* samples, and an attendee page decoding it
FirstChunk(n) == submitted = <<>> /\ OnMessage([i \in 1..framesPerChunk |-> n])

RoundTripNext ==
    \/ \E n \in RoundTripSamples : FirstChunk(n)
    \/ AudioStream

RoundTripSpec == Init /\ [][RoundTripNext]_vars

(***************************************************************************)
(* The session directory and the glossary store of the server.             *)
(***************************************************************************)
\* io.on("connection")
Connect(s) ==
    /\ ~crashed
    /\ s \notin connected
    /\ connected' = connected \cup {s}
    /\ UNCHANGED <<pipelineVars, glossaryCSV, reply, activeRoomId, rooms, roster, hostVars, attendeeVars>>

\* socket.on("host-room"): a fresh random id replaces the active room
HostRoom(s, id) ==
    /\ ~crashed
    /\ s \in connected
    /\ activeRoomId' = id
    /\ rooms' = [rooms EXCEPT ![s] = @ \cup {id}]
    /\ UNCHANGED <<pipelineVars, glossaryCSV, reply, connected, roster, hostVars, attendeeVars>>

\* socket.on("join-room")
JoinRoom(s) ==
    /\ ~crashed
    /\ s \in connected
    /\ rooms' = IF activeRoomId \notin {Null, ""}
                THEN [rooms EXCEPT ![s] = @ \cup {activeRoomId}]
                ELSE rooms
    /\ UNCHANGED <<pipelineVars, glossaryCSV, reply, activeRoomId, connected, roster, hostVars, attendeeVars>>

\* socket.on("disconnect"): the socket has left every room
Disconnect(s) ==
    /\ ~crashed
    /\ s \in connected
    /\ connected' = connected \ {s}
    /\ rooms' = [rooms EXCEPT ![s] = {}]
    /\ UNCHANGED <<pipelineVars, glossaryCSV, reply, activeRoomId, roster, hostVars, attendeeVars>>

\* String.prototype.split for a separator of one character
RECURSIVE Split(_, _)
Split(s, sep) ==
    LET hits == {i \in 1..Len(s) : Char(s, i) = sep}
    IN IF hits = {}
       THEN <<s>>
       ELSE LET i == CHOOSE h \in hits : \A k \in hits : h <= k
            IN <<SubSeq(s, 1, i - 1)>> \o Split(SubSeq(s, i + 1, Len(s)), sep)

\* glossary[key] = value on an object kept as its entries, in the order
\* Object.entries gives them (the terms used here are no array indices)
Put(glossary, key, value) ==
    IF \E i \in DOMAIN glossary : glossary[i][1] = key
    THEN [i \in DOMAIN glossary |->
             IF glossary[i][1] = key THEN <<key, value>> ELSE glossary[i]]
    ELSE Append(glossary, <<key, value>>)

\* the body of parseGlossaryCSV's loop: const [source, target] =
\* line.split(","); if (source && target) glossary[source.trim()] = target.trim()
AddRow(glossary, line) ==
    LET cols == Split(line, ",")
    IN IF Len(cols) >= 2 /\ cols[1] # "" /\ cols[2] # ""
       THEN Put(glossary, Trim(cols[1]), Trim(cols[2]))
       ELSE glossary

RECURSIVE AddRows(_, _)
AddRows(glossary, lines) ==
    IF lines = <<>> THEN glossary ELSE AddRows(AddRow(glossary, Head(lines)), Tail(lines))

\* parseGlossaryCSV: {} for no text, else the rows after the header
parseGlossaryCSV(csv) ==
    IF csv \in {Null, ""} THEN <<>> ELSE AddRows(<<>>, Tail(Split(Trim(csv), "\n")))

\* Object.entries(glossary).map(([en, vn]) => `"${en}" -> "${vn}"`).join(", ")
\* ("->" stands for the arrow of the source)
RECURSIVE Join(_)
Join(entries) ==
    IF entries = <<>> THEN ""
    ELSE LET rule == "\"" \o Head(entries)[1] \o "\" -> \"" \o Head(entries)[2] \o "\""
         IN IF Len(entries) = 1 THEN rule ELSE rule \o ", " \o Join(Tail(entries))

glossaryInstructions(csv) == Join(parseGlossaryCSV(csv))

\* an endpoint that adds the rows of an upload to the stored text
UploadGlossary_Merges(csv) ==
    /\ ~crashed
    /\ glossaryCSV' = IF csv \in {Null, ""} THEN glossaryCSV
                      ELSE IF glossaryCSV = Null THEN csv
                      ELSE glossaryCSV \o "\n" \o csv
    /\ reply' = [csv |-> csv, status |-> IF csv \in {Null, ""} THEN 400 ELSE 200]
    /\ UNCHANGED <<pipelineVars, activeRoomId, connected, rooms, roster, hostVars, attendeeVars>>

\* app.post("/upload-glossary"): a missing (Null) or empty csv is answered
\* 400, any other is stored and answered 200
UploadGlossary(csv) ==
    /\ ~crashed
    /\ glossaryCSV' = IF csv \in {Null, ""} THEN glossaryCSV ELSE csv
    /\ reply' = [csv |-> csv, status |-> IF csv \in {Null, ""} THEN 400 ELSE 200]
    /\ UNCHANGED <<pipelineVars, activeRoomId, connected, rooms, roster, hostVars, attendeeVars>>

\* the sockets io.to(activeRoomId) reaches
Recipients == {s \in connected : activeRoomId \in rooms[s]}

(***************************************************************************)
(* The pipeline controller of the server.                                  *)
(***************************************************************************)
\* the server's clock advances
Tick ==
    /\ ~crashed
    /\ now < MaxTime
    /\ now' = now + 1
    /\ UNCHANGED <<pc, data, stamp, files, ffmpeg, upload, response, completion,
                   calls, outbox, crashed, hung, sessionVars, hostVars, attendeeVars>>

\* the end of transcribeAudio's try block for each answer of the engine:
\* trim, then "" for what the filter rejects
FilteredText ==
    [r \in WhisperTexts \cup FilterTexts |->
        LET text == Trim(r) IN IF Inadmissible(text) THEN "" ELSE text]

\* a transcribeAudio that forwards what the filter rejects
transcribeAudio_Unfiltered(r, wavExists) ==
    IF r = Fail \/ ~wavExists THEN "" ELSE Trim(r)

\* a transcribeAudio whose catch returns the error's text
transcribeAudio_ErrorText(r, wavExists) ==
    IF r = Fail \/ ~wavExists THEN "Error: transcription failed" ELSE FilteredText[r]

\* transcribeAudio after the engine call settled with r: unlinkSync(wavPath),
\* trim, filter; whatever is thrown inside the try is caught and gives ""
transcribeAudio(r, wavExists) ==
    IF r = Fail \/ ~wavExists THEN "" ELSE FilteredText[r]

\* a translateTextGPT whose guard always returns
ShortCircuits_Always(text) == TRUE

\* a translateTextGPT without its guard
ShortCircuits_Never(text) == FALSE

\* translateTextGPT: if (!text.trim()) return ""
ShortCircuits(text) == Trim(text) = ""

\* a translateTextGPT whose catch returns the error's text
translateTextGPT_ErrorText(r) ==
    IF r = Fail THEN "Error: translation failed" ELSE IF r = NoContent THEN "" ELSE Trim(r)

\* translateTextGPT after the engine call settled with r
translateTextGPT(r) == IF r \in {Fail, NoContent} THEN "" ELSE Trim(r)

\* a fan-out to the members the room had when the chunk arrived
FanOut_ToRoster(c, transcript, translation) ==
    outbox' = outbox \o
        << [event |-> "audio-stream", chunk |-> c, to |-> roster[c].members,
            payload |-> [buffer |-> data[c].buffer, timestamp |-> data[c].timestamp]],
           [event |-> "translated-caption", chunk |-> c, to |-> roster[c].members,
            payload |-> [transcript |-> transcript, translation |-> translation,
                         timestamp |-> data[c].timestamp]] >>

\* the two io.to(activeRoomId).emit calls that end the audio-chunk handler
FanOut(c, transcript, translation) ==
    outbox' = outbox \o
        << [event |-> "audio-stream", chunk |-> c, to |-> Recipients,
            payload |-> [buffer |-> data[c].buffer, timestamp |-> data[c].timestamp]],
           [event |-> "translated-caption", chunk |-> c, to |-> Recipients,
            payload |-> [transcript |-> transcript, translation |-> translation,
                         timestamp |-> data[c].timestamp]] >>

\* a handler that passes no glossary on
AfterTranscribe_IgnoresGlossary(c, transcript) ==
    IF ShortCircuits(transcript)
    THEN /\ FanOut(c, transcript, "")
         /\ pc' = [pc EXCEPT ![c] = "done"]
         /\ UNCHANGED calls
    ELSE /\ calls' = calls \cup
                        {[chunk |-> c, text |-> transcript, glossary |-> Null,
                          instructions |-> glossaryInstructions(Null)]}
         /\ pc' = [pc EXCEPT ![c] = "gpt"]
         /\ UNCHANGED outbox

\* the audio-chunk handler from `await transcribeAudio(buffer)` returning
\* transcript to its next await, or to its end
AfterTranscribe(c, transcript) ==
    IF ShortCircuits(transcript)
    THEN /\ FanOut(c, transcript, "")
         /\ pc' = [pc EXCEPT ![c] = "done"]
         /\ UNCHANGED calls
    ELSE /\ calls' = calls \cup
                        {[chunk |-> c, text |-> transcript, glossary |-> glossaryCSV,
                          instructions |-> glossaryInstructions(glossaryCSV)]}
         /\ pc' = [pc EXCEPT ![c] = "gpt"]
         /\ UNCHANGED outbox

\* socket.on("audio-chunk"): the handler runs into transcodeToWavTempFile,
\* which names the temp files, writes the input and spawns ffmpeg
AudioChunk(c, payload) ==
    /\ ~crashed
    /\ pc[c] = "idle"
    /\ \A d \in Chunks : d < c => pc[d] # "idle"
    /\ data' = [data EXCEPT ![c] = payload]
    /\ stamp' = [stamp EXCEPT ![c] = now]
    /\ files' = [files EXCEPT ![TempInput(now)] = Raw(c, payload.buffer)]
    /\ ffmpeg' = [ffmpeg EXCEPT ![c] = "running"]
    /\ pc' = [pc EXCEPT ![c] = "ffmpeg"]
    /\ roster' = [roster EXCEPT ![c] = [room |-> activeRoomId, members |-> Recipients]]
    /\ UNCHANGED <<now, upload, response, completion, calls, outbox, crashed, hung,
                   glossaryCSV, reply, activeRoomId, connected, rooms, hostVars, attendeeVars>>

\* the ffmpeg child process of chunk c does its work and exits: it reads
\* tempInput and, when all goes well, writes tempOutput (-y overwrites)
FfmpegRun(c, ok) ==
    /\ ~crashed
    /\ c \notin hung
    /\ pc[c] = "ffmpeg"
    /\ ffmpeg[c] = "running"
    /\ IF ok /\ files[TempInput(stamp[c])] # NoFile
       THEN /\ files' = [files EXCEPT ![TempOutput(stamp[c])] =
                           Wav(c, files[TempInput(stamp[c])])]
            /\ ffmpeg' = [ffmpeg EXCEPT ![c] = "ok"]
       ELSE /\ ffmpeg' = [ffmpeg EXCEPT ![c] = "failed"]
            /\ UNCHANGED files
    /\ UNCHANGED <<now, pc, data, stamp, upload, response, completion, calls, outbox,
                   crashed, hung, sessionVars, hostVars, attendeeVars>>

\* ff.on("close"): unlinkSync(tempInput), then reject or resolve.  The
\* listener runs outside the promise executor: an exception thrown by
\* unlinkSync is uncaught and ends the process.
FfmpegClose(c) ==
    /\ ~crashed
    /\ pc[c] = "ffmpeg"
    /\ ffmpeg[c] \in {"ok", "failed"}
    /\ IF files[TempInput(stamp[c])] = NoFile
       THEN /\ crashed' = TRUE
            /\ UNCHANGED <<pc, files, calls, outbox>>
       ELSE /\ files' = [files EXCEPT ![TempInput(stamp[c])] = NoFile]
            /\ UNCHANGED crashed
            /\ IF ffmpeg[c] = "failed"
               THEN AfterTranscribe(c, transcribeAudio(Fail, FALSE))
               ELSE /\ pc' = [pc EXCEPT ![c] = "whisper"]
                    /\ UNCHANGED <<calls, outbox>>
    /\ UNCHANGED <<now, data, stamp, ffmpeg, upload, response, completion, hung,
                   sessionVars, hostVars, attendeeVars>>

\* the transcription request reads fs.createReadStream(wavPath)
WhisperUpload(c) ==
    /\ ~crashed
    /\ c \notin hung
    /\ pc[c] = "whisper"
    /\ upload[c] = NotRead
    /\ upload' = [upload EXCEPT ![c] =
                    IF files[TempOutput(stamp[c])] = NoFile
                    THEN Unreadable
                    ELSE files[TempOutput(stamp[c])]]
    /\ UNCHANGED <<now, pc, data, stamp, files, ffmpeg, response, completion, calls,
                   outbox, crashed, hung, sessionVars, hostVars, attendeeVars>>

\* openai.audio.transcriptions.create settles with r; transcribeAudio
\* finishes and the handler goes on to translateTextGPT
WhisperReturn(c, r) ==
    /\ ~crashed
    /\ c \notin hung
    /\ pc[c] = "whisper"
    /\ upload[c] # NotRead
    /\ upload[c] = Unreadable => r = Fail
    /\ response' = [response EXCEPT ![c] = r]
    /\ files' = IF r # Fail
                THEN [files EXCEPT ![TempOutput(stamp[c])] = NoFile]
                ELSE files
    /\ AfterTranscribe(c, transcribeAudio(r, files[TempOutput(stamp[c])] # NoFile))
    /\ UNCHANGED <<now, data, stamp, ffmpeg, upload, completion, crashed, hung,
                   sessionVars, hostVars, attendeeVars>>

\* openai.chat.completions.create settles with r; the handler fans out
TranslateReturn(c, r) ==
    /\ ~crashed
    /\ c \notin hung
    /\ pc[c] = "gpt"
    /\ completion' = [completion EXCEPT ![c] = r]
    /\ LET call == CHOOSE k \in calls : k.chunk = c IN
           FanOut(c, call.text, translateTextGPT(r))
    /\ pc' = [pc EXCEPT ![c] = "done"]
    /\ UNCHANGED <<now, data, stamp, files, ffmpeg, upload, response, calls, crashed,
                   hung, sessionVars, hostVars, attendeeVars>>

\* the external call chunk c waits for never returns
Hang(c) ==
    /\ ~crashed
    /\ c \notin hung
    /\ \/ pc[c] = "ffmpeg" /\ ffmpeg[c] = "running"
       \/ pc[c] \in {"whisper", "gpt"}
    /\ hung' = hung \cup {c}
    /\ UNCHANGED <<now, pc, data, stamp, files, ffmpeg, upload, response, completion,
                   calls, outbox, crashed, sessionVars, hostVars, attendeeVars>>

\* the steps of chunk c's pipeline run that follow its submission
Progress(c) ==
    \/ \E ok \in BOOLEAN : FfmpegRun(c, ok)
    \/ FfmpegClose(c)
    \/ WhisperUpload(c)
    \/ \E r \in WhisperTexts \cup {Fail} : WhisperReturn(c, r)
    \/ \E r \in Translations \cup {Fail, NoContent} : TranslateReturn(c, r)

\* the pipeline controller
Next ==
    \/ Tick
    \/ \E c \in Chunks : \E payload \in Payloads(c) : AudioChunk(c, payload)
    \/ \E c \in Chunks : Progress(c)

Spec == Init /\ [][Next]_vars

\* the pipeline controller with external calls that may hang
NextHang ==
    \/ Next
    \/ \E c \in Chunks : Hang(c)

\* every external call that is not hung returns (timeouts are the engines'
\* business), and every event delivered to the process is handled
FairSpec == Init /\ [][NextHang]_vars /\ \A c \in Chunks : WF_vars(Progress(c))

\* one chunk's pipeline run from its audio-chunk event on
Run(c) ==
    \/ \E payload \in Payloads(c) : AudioChunk(c, payload)
    \/ Progress(c)

\* the glossary endpoint racing the pipeline runs of the first two chunks
GlossaryNext ==
    \/ Tick
    \/ \E c \in Chunks : c <= 2 /\ Run(c)
    \/ \E csv \in GlossaryUploads \cup {Null} : UploadGlossary(csv)

GlossarySpec == Init /\ [][GlossaryNext]_vars

\* the glossary endpoint taking any glossary text, and the first chunk's
\* pipeline run
ResolverNext ==
    \/ \E csv \in GlossaryTexts \cup {"", Null} : UploadGlossary(csv)
    \/ Run(1)

ResolverSpec == Init /\ [][ResolverNext]_vars

\* the first chunk's pipeline run with more answers of the transcription
\* engine
FilterNext ==
    \/ Run(1)
    \/ \E r \in FilterTexts : WhisperReturn(1, r)

FilterSpec == Init /\ [][FilterNext]_vars

\* the session directory racing the first chunk's pipeline run
SessionNext ==
    \/ \E s \in Sockets : Connect(s)
    \/ \E s \in Sockets, id \in RoomIds : HostRoom(s, id)
    \/ \E s \in Sockets : JoinRoom(s)
    \/ \E s \in Sockets : Disconnect(s)
    \/ Run(1)

SessionSpec == Init /\ [][SessionNext]_vars

\* the whole server
ServerNext ==
    \/ Next
    \/ \E s \in Sockets : Connect(s)
    \/ \E s \in Sockets, id \in RoomIds : HostRoom(s, id)
    \/ \E s \in Sockets : JoinRoom(s)
    \/ \E s \in Sockets : Disconnect(s)
    \/ \E csv \in GlossaryUploads : UploadGlossary(csv)

ServerSpec == Init /\ [][ServerNext]_vars

(***************************************************************************)
(* What the claims speak of.                                               *)
(***************************************************************************)
Received(c) == pc[c] # "idle"

InFlight(c) == pc[c] \in {"ffmpeg", "whisper", "gpt"}

Emitted(c, event) ==
    \E i \in DOMAIN outbox : outbox[i].event = event /\ outbox[i].chunk = c

FannedOut(c) == Emitted(c, "audio-stream") /\ Emitted(c, "translated-caption")

\* the caption records emitted for chunk c
CaptionsOf(c) ==
    {outbox[i].payload :
        i \in {j \in DOMAIN outbox :
                  outbox[j].event = "translated-caption" /\ outbox[j].chunk = c}}

Caption(c, transcript, translation) ==
    [transcript |-> transcript, translation |-> translation,
     timestamp |-> data[c].timestamp]

\* the position of chunk c's caption in the order of emission
CaptionIndex(c) ==
    CHOOSE i \in DOMAIN outbox :
        outbox[i].event = "translated-caption" /\ outbox[i].chunk = c

\* the answers of the engine that the filter rejects
RejectedTexts == {r \in WhisperTexts : Inadmissible(Trim(r))}

\* the engine answered chunk c with a text the filter rejects
Filtered(c) == response[c] \in RejectedTexts

\* the engine answered chunk c with a text the filter accepts
Admitted(c) == response[c] \in WhisperTexts \ RejectedTexts

CallsFor(c) == {k \in calls : k.chunk = c}

(***************************************************************************)
(* C1.  Every audio chunk the handler received gets both notifications,    *)
(* whatever became of its stages: a received chunk is either still being   *)
(* processed by a live process or has had its audio-stream and its         *)
(* translated-caption emitted.                                             *)
(***************************************************************************)
C1_EveryChunkFansOut ==
    \A c \in Chunks : Received(c) => FannedOut(c) \/ (InFlight(c) /\ ~crashed)

C3_NoCallWithoutAdmissibleTranscript ==
    \A c \in Chunks :
        \/ CallsFor(c) = {}
        \/ /\ Admitted(c)
           /\ \A k \in CallsFor(c) : k.text = Trim(response[c])

\* one chunk ended with a rejected transcription and another with a failed
\* one, neither with a translation call
C3_Witness ==
    \E c, d \in Chunks :
        /\ Filtered(c) /\ pc[c] = "done" /\ CallsFor(c) = {}
        /\ response[d] = Fail /\ pc[d] = "done" /\ CallsFor(d) = {}

(***************************************************************************)
(* C4.  A transcription-engine failure is contained in its chunk: in the   *)
(* step in which the engine call of chunk c fails, c is fanned out with    *)
(* the empty string as transcript (and as translation), the process stays  *)
(* up, the temp directory is untouched and no other chunk's pipeline run   *)
(* changes, so that every other chunk goes on as it would have.            *)
(***************************************************************************)
C4_TranscriptionFailureContained ==
    [][\A c \in Chunks :
          response[c] = NoResponse /\ response'[c] = Fail =>
              /\ FannedOut(c)'
              /\ CaptionsOf(c)' = {Caption(c, "", "")}
              /\ crashed' = crashed
              /\ files' = files
              /\ calls' = calls
              /\ \A d \in Chunks \ {c} :
                    /\ pc'[d] = pc[d]
                    /\ ffmpeg'[d] = ffmpeg[d]
                    /\ upload'[d] = upload[d]
                    /\ response'[d] = response[d]
                    /\ ~Emitted(d, "translated-caption") =>
                           ~Emitted(d, "translated-caption")']_vars

\* after chunk c's transcription failed and c was fanned out, a chunk
\* submitted after c was transcribed, translated and fanned out
C4_Witness ==
    \E c, d \in Chunks :
        /\ c < d
        /\ response[c] = Fail
        /\ FannedOut(d)
        /\ CaptionIndex(c) < CaptionIndex(d)
        /\ \E caption \in CaptionsOf(d) :
               caption.transcript # "" /\ caption.translation # ""

(***************************************************************************)
(* C5.  Handling a frame emits a chunk if and only if the buffered sample  *)
(* count, that frame included, has reached framesPerChunk; below the       *)
(* threshold nothing is emitted, and a step emits at most one chunk.       *)
(***************************************************************************)
C5_EmitsIffThresholdReached ==
    [][submitted' # submitted =>
          LET frame == submitted'[Len(submitted')]
              buffered == Len(mergeFloat32Arrays(pcmBufferQueue)) + Len(frame)
          IN \/ buffered >= framesPerChunk /\ Len(sent') = Len(sent) + 1
             \/ buffered < framesPerChunk /\ sent' = sent]_vars

\* a chunk has been emitted, and frames handled since are buffered below
\* the threshold
C5_Witness ==
    /\ Len(sent) >= 1
    /\ queuedFrames > 0
    /\ queuedFrames < framesPerChunk
    /\ Len(mergeFloat32Arrays(pcmBufferQueue)) = queuedFrames

(***************************************************************************)
(* C6, as claimed.  Every chunk the accumulator emits has exactly          *)
(* framesPerChunk samples (what is buffered beyond the threshold being     *)
(* carried over to the next chunk).                                        *)
(***************************************************************************)
C6_ChunkLengthIsThreshold ==
    \A i \in DOMAIN sent : Len(sent[i].buffer) = framesPerChunk

(***************************************************************************)
(* C6, amended.  Every chunk the accumulator emits holds all the samples   *)
(* buffered when it is emitted, the frame that reached the threshold       *)
(* included: it has at least framesPerChunk samples and fewer than         *)
(* framesPerChunk plus the length of that frame, and nothing is carried    *)
(* over, the buffer being empty after the emission.                        *)
(***************************************************************************)
C6_ChunkIsWholeBuffer ==
    [][sent' # sent =>
          LET frame == submitted'[Len(submitted')]
              chunk == sent'[Len(sent')]
          IN /\ Len(chunk.buffer) = Len(mergeFloat32Arrays(pcmBufferQueue)) + Len(frame)
             /\ Len(chunk.buffer) >= framesPerChunk
             /\ Len(chunk.buffer) < framesPerChunk + Len(frame)
             /\ pcmBufferQueue' = <<>>
             /\ queuedFrames' = 0]_vars

\* a chunk longer than the threshold has been emitted
C6_Witness ==
    \E i \in DOMAIN sent : Len(sent[i].buffer) > framesPerChunk

(***************************************************************************)
(* C7.  Whenever a later chunk B has been fanned out ahead of an earlier   *)
(* chunk A, the controller has not crashed (and out-of-order fan-out is    *)
(* possible).                                                              *)
(***************************************************************************)
FannedOutAhead(b, a) ==
    /\ a < b
    /\ FannedOut(b)
    /\ FannedOut(a) => CaptionIndex(b) < CaptionIndex(a)

C7_OutOfOrderNeverCrashes ==
    \A a, b \in Chunks : FannedOutAhead(b, a) => ~crashed

(***************************************************************************)
(* C8.  The temp files of one chunk's pipeline run are never overwritten,  *)
(* read or deleted by another run: while a run waits for ffmpeg its input  *)
(* file exists as that run wrote it, while it waits to upload its output   *)
(* file exists as its own ffmpeg wrote it, and what its transcription      *)
(* request read is its own output file.                                    *)
(***************************************************************************)
C8_TempFilesPrivate ==
    \A c \in Chunks :
        /\ pc[c] = "ffmpeg" => files[TempInput(stamp[c])].writer = c
        /\ pc[c] = "whisper" /\ upload[c] = NotRead =>
               files[TempOutput(stamp[c])].writer = c
        /\ upload[c] # NotRead => upload[c].writer = c

(***************************************************************************)
(* C9.  Once an external call hangs, only its chunk is stalled: every      *)
(* received chunk whose own calls return is eventually fanned out.         *)
(***************************************************************************)
C9_OthersEventuallyFanOut ==
    \A c \in Chunks :
        (hung # {} /\ Received(c) /\ c \notin hung) ~> (FannedOut(c) \/ c \in hung)

(***************************************************************************)
(* C10.  When the translation engine call fails for a chunk with an        *)
(* admissible transcript, the chunk is still fanned out, with a single     *)
(* caption whose translation is the empty string and whose transcript is   *)
(* the unchanged (trimmed, non-empty) transcribed text.                    *)
(***************************************************************************)
C10_TranslationFailureGivesEmptyTranslation ==
    \A c \in Chunks :
        completion[c] = Fail =>
            /\ Admitted(c)
            /\ pc[c] = "done"
            /\ Emitted(c, "audio-stream")
            /\ CaptionsOf(c) = {Caption(c, Trim(response[c]), "")}

\* a translation call has failed
C10_Witness ==
    \E c \in Chunks : completion[c] = Fail /\ Trim(response[c]) = "Hello world."

(***************************************************************************)
(* C11.  A non-zero exit of the transcode process is confined to its       *)
(* chunk: in the step in which the close listener of a chunk whose ffmpeg  *)
(* failed finishes the chunk, no transcription request and no translation  *)
(* call has been made for it, it is fanned out with the empty string as    *)
(* transcript and as translation, the process stays up, and no other       *)
(* chunk's pipeline run changes nor loses a temp file it still needs.      *)
(***************************************************************************)
TranscodeFailed(c) == pc[c] = "ffmpeg" /\ ffmpeg[c] = "failed"

C11_TranscodeFailureContained ==
    [][\A c \in Chunks :
          TranscodeFailed(c) /\ pc'[c] = "done" =>
              /\ upload'[c] = NotRead
              /\ response'[c] = NoResponse
              /\ CallsFor(c)' = {}
              /\ FannedOut(c)'
              /\ CaptionsOf(c)' = {Caption(c, "", "")}
              /\ crashed' = crashed
              /\ \A d \in Chunks \ {c} :
                    /\ pc'[d] = pc[d]
                    /\ ffmpeg'[d] = ffmpeg[d]
                    /\ upload'[d] = upload[d]
                    /\ response'[d] = response[d]
                    /\ pc[d] = "ffmpeg" =>
                           files'[TempInput(stamp[d])] = files[TempInput(stamp[d])]
                    /\ pc[d] = "whisper" =>
                           files'[TempOutput(stamp[d])] = files[TempOutput(stamp[d])]]_vars

(***************************************************************************)
(* C12.  Every audio-stream notification of a chunk carries the buffer and *)
(* the timestamp that arrived with that chunk, every translated-caption of *)
(* the chunk carries the same timestamp, and the text the chunk's caption  *)
(* is made from was transcribed from that chunk's own audio: what its      *)
(* transcription request read was converted from its own buffer.           *)
(***************************************************************************)
\* the payloads of the audio-stream records emitted for chunk c
AudioOf(c) ==
    {outbox[i].payload :
        i \in {j \in DOMAIN outbox :
                  outbox[j].event = "audio-stream" /\ outbox[j].chunk = c}}

C12_FanOutCarriesOwnData ==
    \A c \in Chunks :
        /\ AudioOf(c) \subseteq Payloads(c)
        /\ \A caption \in CaptionsOf(c), audio \in AudioOf(c) :
               caption.timestamp = audio.timestamp
        /\ FannedOut(c) /\ upload[c] \notin {NotRead, Unreadable} =>
               upload[c].of = data[c].buffer

(***************************************************************************)
(* C13.  A notification for a chunk is emitted only after its transcribe   *)
(* stage and its translate stage have both completed: the handler is at    *)
(* its end, the transcription either was answered or failed before the     *)
(* request (transcode failure), and the translation either was answered    *)
(* or was never called because the transcript is empty.                    *)
(***************************************************************************)
TranscribeSettled(c) == response[c] # NoResponse \/ ffmpeg[c] = "failed"

TranslateSettled(c) ==
    \/ completion[c] # NoResponse
    \/ CallsFor(c) = {} /\ \A caption \in CaptionsOf(c) : caption.transcript = ""

C13_FanOutAfterBothStages ==
    \A c \in Chunks :
        Emitted(c, "audio-stream") \/ Emitted(c, "translated-caption") =>
            /\ pc[c] = "done"
            /\ TranscribeSettled(c)
            /\ TranslateSettled(c)
            /\ FannedOut(c)

\* a chunk is fanned out after both engines answered it, while another
\* chunk, received earlier, still waits for its translation
C13_Witness ==
    \E c, d \in Chunks :
        /\ d < c
        /\ FannedOut(c) /\ response[c] \in WhisperTexts /\ completion[c] \in Translations
        /\ pc[d] = "gpt" /\ ~Emitted(d, "audio-stream")

(***************************************************************************)
(* C14.  Each successful glossary upload replaces the whole stored         *)
(* glossary: a request answered 200 leaves exactly its csv as the stored   *)
(* text, a request with a missing or empty csv is answered 400 and leaves  *)
(* the stored text unchanged, and a translate stage that starts uses the   *)
(* instruction built from the stored text alone, that is from the rows of  *)
(* the last successful upload only.                                        *)
(***************************************************************************)
C14_UploadReplacesGlossary ==
    [][/\ reply' # reply \/ glossaryCSV' # glossaryCSV =>
             IF reply'.csv \in {Null, ""}
             THEN reply'.status = 400 /\ glossaryCSV' = glossaryCSV
             ELSE reply'.status = 200 /\ glossaryCSV' = reply'.csv
       /\ \A k \in calls' \ calls :
             /\ k.glossary = glossaryCSV'
             /\ k.instructions = glossaryInstructions(glossaryCSV')]_vars

\* two translate stages started under two different uploads, each with the
\* instruction of its own upload, and an empty upload was rejected since
C14_Witness ==
    \E k, m \in calls :
        /\ k.glossary # Null /\ m.glossary # Null
        /\ k.glossary # m.glossary
        /\ k.instructions = "\"hello\" -> \"xin chao\""
        /\ m.instructions = "\"world\" -> \"the gioi\""
        /\ reply.status = 400
        /\ glossaryCSV = m.glossary

(***************************************************************************)
(* C15.  The mapping the resolver builds from a glossary text holds        *)
(* exactly the data rows (header excluded) that have a source term and a   *)
(* target term, a later row of a term overriding an earlier one; rows that *)
(* are blank or lack either column give no entry, so that no entry has an  *)
(* empty term or an empty translation.  It is stated of the instruction    *)
(* every translation call was made with.                                   *)
(***************************************************************************)
\* the rows of a glossary text after its header
DataRows(csv) == IF csv \in {Null, ""} THEN <<>> ELSE Tail(Split(Trim(csv), "\n"))

\* the source term and the target term of a row, "" when the row has none
SourceTerm(line) == Trim(Split(line, ",")[1])

TargetTerm(line) ==
    LET cols == Split(line, ",") IN IF Len(cols) >= 2 THEN Trim(cols[2]) ELSE ""

HasBothTerms(line) == SourceTerm(line) # "" /\ TargetTerm(line) # ""

\* the terms of a sequence of rows, each once, in the order of first use
RECURSIVE TermsOf(_, _)
TermsOf(rows, seen) ==
    IF rows = <<>> THEN <<>>
    ELSE IF SourceTerm(Head(rows)) \in seen THEN TermsOf(Tail(rows), seen)
    ELSE <<SourceTerm(Head(rows))>> \o
             TermsOf(Tail(rows), seen \cup {SourceTerm(Head(rows))})

\* the mapping the claim describes
CompleteRowsMapping(csv) ==
    LET rows == SelectSeq(DataRows(csv), HasBothTerms)
        terms == TermsOf(rows, {})
        last(term) == CHOOSE i \in DOMAIN rows :
                          /\ SourceTerm(rows[i]) = term
                          /\ \A j \in DOMAIN rows : SourceTerm(rows[j]) = term => j <= i
    IN [n \in DOMAIN terms |-> <<terms[n], TargetTerm(rows[last(terms[n])])>>]

C15_ResolverKeepsCompleteRows ==
    \A k \in calls : k.instructions = Join(CompleteRowsMapping(k.glossary))

(***************************************************************************)
(* C20.  The glossary of a chunk's translation is the one stored when its  *)
(* translate stage starts: the call made in the step that ends the chunk's *)
(* transcription carries the text stored at that moment, whatever was      *)
(* stored when the chunk arrived, with the instruction built from that     *)
(* text alone, and no later upload changes the call.                       *)
(***************************************************************************)
C20_GlossarySnapshotAtTranslate ==
    [][\A c \in Chunks :
          /\ pc[c] \in {"ffmpeg", "whisper"} /\ pc'[c] = "gpt" =>
                CallsFor(c)' = {[chunk |-> c, text |-> Trim(response'[c]),
                                 glossary |-> glossaryCSV,
                                 instructions |-> glossaryInstructions(glossaryCSV)]}
          /\ pc[c] \in {"gpt", "done"} => CallsFor(c)' = CallsFor(c)]_vars

\* a translation call is pending with the glossary of one upload while
\* another upload has been stored since
C20_Witness ==
    \E c \in Chunks :
        /\ pc[c] = "gpt"
        /\ \E k \in CallsFor(c) :
              /\ k.glossary \in GlossaryUploads \ {""}
              /\ glossaryCSV \in GlossaryUploads \ {"", k.glossary}
              /\ k.instructions # glossaryInstructions(glossaryCSV)

(***************************************************************************)
(* C16.  A transcript is rejected if and only if, trimmed, it matches at   *)
(* least one of the patterns or is shorter than 3 characters: the chunk of *)
(* a rejected text ends without a translation call and with the empty      *)
(* transcript, the chunk of any other text is translated with the trimmed  *)
(* text.  "um", "", "hi hi hi" and "Thank you for watching!" are rejected, *)
(* "cat" and "The weather today is sunny" are not.                         *)
(***************************************************************************)
\* for each answer: does some pattern match it, trimmed
MatchesSomePattern ==
    [r \in FilterTexts |-> \E k \in 1..30 : INADMISSIBLE_PATTERNS(Trim(r))[k]]

\* chunk c was answered and ended as a rejected transcript does
EndedRejected(c) ==
    /\ pc[c] = "done"
    /\ CallsFor(c) = {}
    /\ CaptionsOf(c) = {Caption(c, "", "")}

\* chunk c was answered and went on as an admitted transcript does
WentOnAdmitted(c) ==
    /\ pc[c] \in {"gpt", "done"}
    /\ \E k \in CallsFor(c) : k.text = Trim(response[c])
    /\ pc[c] = "done" => \E caption \in CaptionsOf(c) : caption.transcript = Trim(response[c])

C16_RejectedIffPatternOrShort ==
    \A c \in Chunks :
        response[c] \in FilterTexts =>
            /\ IF MatchesSomePattern[response[c]] \/ Len(Trim(response[c])) < 3
               THEN EndedRejected(c)
               ELSE WentOnAdmitted(c)
            /\ response[c] \in {"um", "", "hi hi hi", "Thank you for watching!"} =>
                   EndedRejected(c)
            /\ response[c] \in {"cat", "The weather today is sunny"} => WentOnAdmitted(c)

\* a text rejected by a pattern alone is reached
C16_Witness ==
    \E c \in Chunks :
        /\ response[c] = "hi hi hi"
        /\ Len(Trim(response[c])) >= 3
        /\ MatchesSomePattern[response[c]]
        /\ EndedRejected(c)

(***************************************************************************)
(* C17.  Every sample in [-1, 1] that was converted by the host and        *)
(* decoded by an attendee comes out within 1/32768 of its value, and a     *)
(* sample outside [-1, 1] is converted as the nearer end of the range, so  *)
(* that every converted value lies in -32768..32767.                       *)
(***************************************************************************)
Abs(x) == IF x < 0 THEN -x ELSE x

\* |n / SampleDen - decoded| <= 1 / 32768
WithinOneStep(n, decoded) ==
    Abs(n * decoded.den - decoded.num * SampleDen) * 32768 <= SampleDen * decoded.den

C17_RoundTripWithinOneStep ==
    LET samples == mergeFloat32Arrays(submitted)
        heard == mergeFloat32Arrays(played)
    IN /\ \A j \in DOMAIN heard :
             -SampleDen <= samples[j] /\ samples[j] <= SampleDen =>
                 WithinOneStep(samples[j], heard[j])
       /\ \A c \in DOMAIN sent : \A i \in DOMAIN sent[c].buffer :
             /\ sent[c].buffer[i] \in -32768..32767
             /\ submitted[1][i] > SampleDen => sent[c].buffer[i] = 32767
             /\ submitted[1][i] < -SampleDen => sent[c].buffer[i] = -32768

(***************************************************************************)
(* C18.  On an attendee page transcripts and captions are kept apart: a    *)
(* caption record whose translation is empty once trimmed and stripped of  *)
(* its quotes leaves the caption history unchanged, and if its transcript  *)
(* is not empty the transcript history gains that transcript (keeping its  *)
(* last 5); a record with an empty transcript leaves the transcript        *)
(* history unchanged.                                                      *)
(***************************************************************************)
C18_HistoriesIndependent ==
    [][delivered' # delivered \/ captions' # captions \/ transcripts' # transcripts =>
          LET record == delivered' IN
              /\ CleanTranslation(record.translation) = "" => captions' = captions
              /\ CleanTranslation(record.translation) = "" /\ record.transcript # "" =>
                     /\ Len(transcripts') = IF Len(transcripts) < HistoryLength
                                            THEN Len(transcripts) + 1
                                            ELSE HistoryLength
                     /\ transcripts'[Len(transcripts')] = record.transcript
                     /\ \A i \in 1..(Len(transcripts') - 1) :
                           transcripts'[i] =
                               transcripts[Len(transcripts) - (Len(transcripts') - 1) + i]
              /\ record.transcript = "" => transcripts' = transcripts]_vars

\* the last record had a translation of quotes only and a transcript, and
\* the transcript history is ahead of the caption history
C18_Witness ==
    /\ delivered.translation = "''"
    /\ delivered.transcript = "cat"
    /\ Len(transcripts) > Len(captions)
    /\ transcripts[Len(transcripts)] = "cat"
    /\ Len(captions) > 0

(***************************************************************************)
(* C19.  The accumulator conserves samples: after every frame handled, the *)
(* emitted chunks one after the other, followed by the buffered frames,    *)
(* are the submitted frames in order, sample by sample (converted to       *)
(* PCM); queuedFrames is the number of buffered samples and is below the   *)
(* threshold; and a chunk is emitted only in a step that handles a frame,  *)
(* so that a trailing partial buffer stays buffered.                       *)
(***************************************************************************)
\* the sequences of a sequence, one after the other
RECURSIVE Concat(_)
Concat(seqs) ==
    IF Len(seqs) = 0 THEN <<>> ELSE Concat(SubSeq(seqs, 1, Len(seqs) - 1)) \o seqs[Len(seqs)]

SamplesConserved ==
    LET buffered == Concat(pcmBufferQueue)
        posted == Concat(submitted)
    IN  /\ Concat([i \in DOMAIN sent |-> sent[i].buffer])
               \o [j \in DOMAIN buffered |-> SampleToPCM(buffered[j])]
            = [j \in DOMAIN posted |-> SampleToPCM(posted[j])]
        /\ queuedFrames = Len(buffered)
        /\ queuedFrames < framesPerChunk

C19_SamplesConserved ==
    /\ []SamplesConserved
    /\ [][sent' # sent => Len(submitted') = Len(submitted) + 1]_vars

\* a chunk longer than the threshold was emitted and a partial buffer is
\* held after the last frame
C19_Witness ==
    /\ Len(sent) >= 1
    /\ Len(sent[1].buffer) > framesPerChunk
    /\ Len(pcmBufferQueue) >= 1
    /\ Len(submitted) = MaxFrames
    /\ \E i, j \in DOMAIN sent[1].buffer : sent[1].buffer[i] # sent[1].buffer[j]

(***************************************************************************)
(* C21.  The recipients of a chunk's fan-out are exactly the members of    *)
(* the active room at the moment the fan-out is emitted: every record a    *)
(* step adds to the outbox is addressed to the connected sockets that are  *)
(* in the room activeRoomId names in that step, whatever the room and its  *)
(* members were when the chunk arrived; a socket that is not connected is  *)
(* never a recipient.                                                      *)
(***************************************************************************)
\* the connected sockets that have joined room and not left it
Members(room) == {s \in Sockets : s \in connected /\ room \in rooms[s]}

C21_RecipientsAreMembersAtEmission ==
    [][\A i \in (DOMAIN outbox') \ (DOMAIN outbox) :
           /\ outbox'[i].to = Members(activeRoomId)
           /\ outbox'[i].to \subseteq connected]_vars

\* the first chunk arrived when s1 was the only member of room r1, and was
\* fanned out to s2 alone, a member of the active room; s1 has disconnected
C21_Witness ==
    /\ roster[1] = [room |-> "r1", members |-> {"s1"}]
    /\ FannedOut(1)
    /\ \A i \in DOMAIN outbox : outbox[i].to = {"s2"}
    /\ "s1" \notin connected
    /\ Members(activeRoomId) = {"s2"}
====
